---- MODULE Spec2Model ----
(***************************************************************************)
(* Model of mod-server-auto-shutdown (ServerAutoShutdown.cpp, the version  *)
(* with the Weekday and EveryDays options).                                *)
(*                                                                         *)
(* Time is in seconds since the epoch; the local time zone is taken to be  *)
(* a fixed-offset zone (UTC), so that every local day has 86400 seconds.   *)
(* A calendar date is represented by its day number since 1970-01-01.      *)
(*                                                                         *)
(* A 32-bit unsigned word w is represented by the integer of               *)
(* -2^31 .. 2^31-1 that is congruent to w modulo 2^32: the words of        *)
(* 2^31 .. 2^32-1 are the negative integers.  ULt is the unsigned order    *)
(* and Sub32 the wrapping subtraction on that representation.              *)
(***************************************************************************)
EXTENDS Integers, Sequences, FiniteSets, TLC

VARIABLES
    config,           \* the options sConfigMgr holds
    clock,            \* what time(nullptr) returns
    isEnableModule,   \* ServerAutoShutdown::_isEnableModule
    tasks,            \* the pending tasks of the TaskScheduler `scheduler`, in insertion order
    updates,          \* scheduler.Update calls since the last scheduler.CancelAll
    scheduled,        \* scheduler.Schedule calls since the last scheduler.CancelAll
    worldShutdown,    \* sWorld's shutdown countdown
    built,            \* what the most recent rebuild logged: its nowTime and, per entry, its plan
    last,             \* what the most recent call did: its path, the tasks it fired, its calls out
    call              \* one call of one of the two time functions (SpecTime only)

vars == << config, clock, isEnableModule, tasks, updates, scheduled, worldShutdown, built,
          last, call >>

-----------------------------------------------------------------------------
(* Program constants *)

DaySeconds == 86400
MinShutdownDiff == 10
MaxEveryDays == 365
MaxPreAnnounce == 86400
DefaultPreAnnounce == 3600
MaxHour == 23
MinuteLimit == 60
SecondLimit == 60

(* Bounds of the model *)

MaxUpdates == 3
MaxAge == 2

-----------------------------------------------------------------------------
(* 32-bit unsigned arithmetic on the representation described above *)

MinInt32 == (-2147483647) - 1

ULt(a, b) == IF (a >= 0) = (b >= 0) THEN a < b ELSE b < 0

UGt(a, b) == ULt(b, a)

Sub32(a, b) ==
    IF (a >= 0) = (b >= 0)
    THEN a - b
    ELSE IF a < 0
         THEN IF a - MinInt32 >= b
              THEN a - b
              ELSE (((a - MinInt32) - b) + 2147483647) + 1
         ELSE IF ((a - 2147483647) - 1) - b < 0
              THEN a - b
              ELSE (((a - 2147483647) - 1) - b) + MinInt32

-----------------------------------------------------------------------------
(* Calendar: Acore::Time::TimeBreakdown (localtime_r) and mktime *)

(* tm_wday: 1970-01-01, day 0, was a Thursday (4). *)
TimeBreakdown(t) ==
    [ day  |-> t \div 86400,
      hour |-> (t % 86400) \div 3600,
      min  |-> ((t % 86400) % 3600) \div 60,
      sec  |-> (t % 86400) % 60,
      wday |-> ((t \div 86400) + 4) % 7 ]

(* mktime normalises its argument: a day number past the end of the month  *)
(* is simply a later date, and tm_wday is ignored.                         *)
mktime(tm) ==
    tm.day * 86400 + tm.hour * 3600 + tm.min * 60 + tm.sec

-----------------------------------------------------------------------------
(* The two time functions of the anonymous namespace *)

(* GetNextResetTime with the comparison `midnightLocal < time` *)
GetNextResetTime_StrictlyPassed(time, day, hour, minute, second) ==
    LET timeLocal == [TimeBreakdown(time) EXCEPT !.hour = hour, !.min = minute, !.sec = second]
        midnightLocal == mktime(timeLocal)
    IN  IF UGt(day, 1) \/ midnightLocal < time
        THEN midnightLocal + DaySeconds * day
        ELSE midnightLocal

(* `86400 * day` is a uint32 product; day is at most 365 at every call, so *)
(* the product never wraps.                                                *)
GetNextResetTime(time, day, hour, minute, second) ==
    LET timeLocal == [TimeBreakdown(time) EXCEPT !.hour = hour, !.min = minute, !.sec = second]
        midnightLocal == mktime(timeLocal)
    IN  IF UGt(day, 1) \/ midnightLocal <= time
        THEN midnightLocal + DaySeconds * day
        ELSE midnightLocal

(* GetNextWeekdayTime with the comparison `tm_sec > restartSecond` *)
GetNextWeekdayTime_StrictSecond(now, weekday, restartHour, restartMinute, restartSecond) ==
    LET timeLocal == TimeBreakdown(now)
        currentWeekday == timeLocal.wday
        daysUntil0 == (weekday - currentWeekday + 7) % 7
        passed == \/ timeLocal.hour > restartHour
                  \/ (timeLocal.hour = restartHour /\ timeLocal.min > restartMinute)
                  \/ (timeLocal.hour = restartHour /\ timeLocal.min = restartMinute
                        /\ timeLocal.sec > restartSecond)
        daysUntil == IF daysUntil0 = 0 /\ passed THEN 7 ELSE daysUntil0
    IN  mktime([timeLocal EXCEPT !.day = @ + daysUntil, !.hour = restartHour,
                                 !.min = restartMinute, !.sec = restartSecond])

GetNextWeekdayTime(now, weekday, restartHour, restartMinute, restartSecond) ==
    LET timeLocal == TimeBreakdown(now)
        currentWeekday == timeLocal.wday
        daysUntil0 == (weekday - currentWeekday + 7) % 7
        passed == \/ timeLocal.hour > restartHour
                  \/ (timeLocal.hour = restartHour /\ timeLocal.min > restartMinute)
                  \/ (timeLocal.hour = restartHour /\ timeLocal.min = restartMinute
                        /\ timeLocal.sec >= restartSecond)
        daysUntil == IF daysUntil0 = 0 /\ passed THEN 7 ELSE daysUntil0
    IN  mktime([timeLocal EXCEPT !.day = @ + daysUntil, !.hour = restartHour,
                                 !.min = restartMinute, !.sec = restartSecond])

-----------------------------------------------------------------------------
(* Configuration values.  A time string is the sequence of its ':' tokens  *)
(* (Acore::Tokenize, empty tokens dropped); a token is the number it       *)
(* spells, or -1 when it is not a number.                                  *)

(* Acore::StringTo<uint8>: a value when the token is a number of 0..255 *)
StringToUint8(token) ==
    IF token >= 0 /\ token <= 255 THEN << token >> ELSE << >>

CheckTime(tokens) ==
    \A itr \in 1..3 : StringToUint8(tokens[itr]) # << >>

(* AcceptTimeString with the minute limit taken inclusively *)
AcceptTimeString_MinuteInclusive(tokens) ==
    /\ Len(tokens) = 3
    /\ CheckTime(tokens)
    /\ ~ ( \/ StringToUint8(tokens[1])[1] > MaxHour
           \/ StringToUint8(tokens[2])[1] > MinuteLimit
           \/ StringToUint8(tokens[3])[1] >= SecondLimit )

(* One iteration of the parsing loop: TRUE when the entry is appended *)
AcceptTimeString(tokens) ==
    /\ Len(tokens) = 3
    /\ CheckTime(tokens)
    /\ ~ ( \/ StringToUint8(tokens[1])[1] > MaxHour
           \/ StringToUint8(tokens[2])[1] >= MinuteLimit
           \/ StringToUint8(tokens[3])[1] >= SecondLimit )

(* The vector resetTimes after the parsing loop *)
ParseResetTimes(timeStrings) ==
    LET accepted == SelectSeq(timeStrings, AcceptTimeString)
    IN  [ i \in 1..Len(accepted) |->
            [ hour   |-> StringToUint8(accepted[i][1])[1],
              minute |-> StringToUint8(accepted[i][2])[1],
              second |-> StringToUint8(accepted[i][3])[1] ] ]

(* "Validate weekday if set" *)
ValidateWeekday(weekday) ==
    IF weekday < -1 \/ weekday > 6 THEN -1 ELSE weekday

(* EveryDaysRejected without the upper limit *)
EveryDaysRejected_NoUpperLimit(everyDays) ==
    ULt(everyDays, 1)

(* "Validate EveryDays": TRUE when Init gives up (everyDays is a uint32) *)
EveryDaysRejected(everyDays) ==
    ULt(everyDays, 1) \/ UGt(everyDays, MaxEveryDays)

(* NextResetTimeOf with the cadence fixed to daily *)
NextResetTimeOf_Daily(nowTime, weekday, everyDays, e) ==
    IF weekday >= 0 /\ weekday <= 6
    THEN GetNextWeekdayTime(nowTime, weekday, e.hour, e.minute, e.second)
    ELSE GetNextResetTime(nowTime, 1, e.hour, e.minute, e.second)

(* NextResetTimeOf without the weekday policy *)
NextResetTimeOf_AlwaysCadence(nowTime, weekday, everyDays, e) ==
    GetNextResetTime(nowTime, everyDays, e.hour, e.minute, e.second)

(* The cadence policy of one time entry *)
NextResetTimeOf(nowTime, weekday, everyDays, e) ==
    IF weekday >= 0 /\ weekday <= 6
    THEN GetNextWeekdayTime(nowTime, weekday, e.hour, e.minute, e.second)
    ELSE GetNextResetTime(nowTime, everyDays, e.hour, e.minute, e.second)

(* uint32 diffToShutdown = nextResetTime - static_cast<uint32>(nowTime) *)
DiffToShutdown(nextResetTime, nowTime) == Sub32(nextResetTime, nowTime)

(* SkipEntry with the comparison `diffToShutdown <= 10` *)
SkipEntry_Inclusive(diffToShutdown) == ~ULt(MinShutdownDiff, diffToShutdown)

(* "Next time to shutdown < 10 seconds, Skipping this time" *)
SkipEntry(diffToShutdown) == ULt(diffToShutdown, MinShutdownDiff)

(* ClampPreAnnounce with the comparison `preAnnounceSeconds >= 86400` *)
ClampPreAnnounce_Inclusive(preAnnounceSeconds) ==
    IF ~ULt(preAnnounceSeconds, MaxPreAnnounce) THEN DefaultPreAnnounce ELSE preAnnounceSeconds

(* The configured PreAnnounce.Seconds after the one-day check *)
ClampPreAnnounce(preAnnounceSeconds) ==
    IF UGt(preAnnounceSeconds, MaxPreAnnounce) THEN DefaultPreAnnounce ELSE preAnnounceSeconds

(* PreAnnouncePlan without `preAnnounceSeconds = diffToShutdown` *)
PreAnnouncePlan_KeepConfigured(nextResetTime, nowTime, diffToShutdown, preAnnounceSeconds) ==
    LET timeToPreAnnounce == Sub32(nextResetTime, preAnnounceSeconds)
        diffToPreAnnounce == Sub32(timeToPreAnnounce, nowTime)
    IN  IF ULt(diffToShutdown, preAnnounceSeconds)
        THEN [ timeToPreAnnounce  |-> nowTime + 1,
               diffToPreAnnounce  |-> 1,
               preAnnounceSeconds |-> preAnnounceSeconds ]
        ELSE [ timeToPreAnnounce  |-> timeToPreAnnounce,
               diffToPreAnnounce  |-> diffToPreAnnounce,
               preAnnounceSeconds |-> preAnnounceSeconds ]

(* timeToPreAnnounce, diffToPreAnnounce and the captured preAnnounceSeconds *)
PreAnnouncePlan(nextResetTime, nowTime, diffToShutdown, preAnnounceSeconds) ==
    LET timeToPreAnnounce == Sub32(nextResetTime, preAnnounceSeconds)
        diffToPreAnnounce == Sub32(timeToPreAnnounce, nowTime)
    IN  IF ULt(diffToShutdown, preAnnounceSeconds)
        THEN [ timeToPreAnnounce  |-> nowTime + 1,
               diffToPreAnnounce  |-> 1,
               preAnnounceSeconds |-> diffToShutdown ]
        ELSE [ timeToPreAnnounce  |-> timeToPreAnnounce,
               diffToPreAnnounce  |-> diffToPreAnnounce,
               preAnnounceSeconds |-> preAnnounceSeconds ]

(* The body of the scheduling loop for the entry at position idx: what it  *)
(* logs, and whether it reaches scheduler.Schedule.                        *)
EntryPlan(nowTime, weekday, everyDays, cfgPreAnnounce, e, idx) ==
    LET nextResetTime == NextResetTimeOf(nowTime, weekday, everyDays, e)
        diffToShutdown == DiffToShutdown(nextResetTime, nowTime)
        plan == PreAnnouncePlan(nextResetTime, nowTime, diffToShutdown,
                                ClampPreAnnounce(cfgPreAnnounce))
    IN  IF SkipEntry(diffToShutdown)
        THEN [ idx |-> idx, entry |-> e, skipped |-> TRUE,
               nextResetTime |-> nextResetTime, diffToShutdown |-> diffToShutdown,
               timeToPreAnnounce |-> 0, diffToPreAnnounce |-> 0, preAnnounceSeconds |-> 0 ]
        ELSE [ idx |-> idx, entry |-> e, skipped |-> FALSE,
               nextResetTime |-> nextResetTime, diffToShutdown |-> diffToShutdown,
               timeToPreAnnounce |-> plan.timeToPreAnnounce,
               diffToPreAnnounce |-> plan.diffToPreAnnounce,
               preAnnounceSeconds |-> plan.preAnnounceSeconds ]

-----------------------------------------------------------------------------
(* TaskScheduler.  A pending task keeps the delay it was scheduled with    *)
(* (seconds, a uint32 converted to Seconds), the milliseconds its clock    *)
(* has advanced, and the preAnnounceSeconds its lambda captured.  idx is   *)
(* the position of its time entry in resetTimes and age the number of Init *)
(* calls that have returned since the call that armed it (at most MaxAge). *)

Schedule(queue, delay, preAnnounceSeconds, idx) ==
    Append(queue, [ delay |-> delay, elapsed |-> 0,
                    preAnnounceSeconds |-> preAnnounceSeconds, idx |-> idx, age |-> 0 ])

CancelAll(queue) == << >>

(* A task is due once its clock has reached its delay; a delay of 2^31    *)
(* seconds or more (a negative representative) is never reached.           *)
Due(task, diff) ==
    task.delay >= 0 /\ (task.elapsed + diff) \div 1000 >= task.delay

Advance(task, diff) == [task EXCEPT !.elapsed = @ + diff]

(* The tasks Update(diff) leaves pending *)
UpdatePending(queue, diff) ==
    LET keep(t) == ~Due(t, diff)
        left == SelectSeq(queue, keep)
    IN  [ i \in 1..Len(left) |-> Advance(left[i], diff) ]

(* The tasks Update(diff) fires, earliest end first, insertion order among equals *)
RECURSIVE SortByDelay(_)
SortByDelay(seq) ==
    IF seq = << >> THEN << >>
    ELSE LET least == CHOOSE i \in 1..Len(seq) :
                         \A j \in 1..Len(seq) :
                             \/ seq[i].delay < seq[j].delay
                             \/ (seq[i].delay = seq[j].delay /\ i <= j)
             rest == [ k \in 1..(Len(seq) - 1) |-> IF k < least THEN seq[k] ELSE seq[k + 1] ]
         IN  << seq[least] >> \o SortByDelay(rest)

UpdateFired(queue, diff) ==
    LET due(t) == Due(t, diff)
    IN  SortByDelay(SelectSeq(queue, due))

-----------------------------------------------------------------------------
(* sWorld's shutdown countdown: timer = 0 when none is running *)

ShutdownCancel(world) == [ timer |-> 0 ]

ShutdownServ(world, time) == [ timer |-> time ]

-----------------------------------------------------------------------------
(* ServerAutoShutdown::Init *)

Min(a, b) == IF a < b THEN a ELSE b

(* Every pending task has seen one more Init call *)
Aged(queue) ==
    [ i \in 1..Len(queue) |-> [queue[i] EXCEPT !.age = Min(@ + 1, MaxAge)] ]

(* ArmAll scheduling one task per distinct delay and duration *)
RECURSIVE ArmAll_Distinct(_, _)
ArmAll_Distinct(queue, plans) ==
    IF plans = << >> THEN queue
    ELSE LET p == Head(plans)
             same == \E k \in 1..Len(queue) :
                        /\ queue[k].delay = p.diffToPreAnnounce
                        /\ queue[k].preAnnounceSeconds = p.preAnnounceSeconds
         IN  ArmAll_Distinct(IF p.skipped \/ same THEN queue
                             ELSE Schedule(queue, p.diffToPreAnnounce, p.preAnnounceSeconds,
                                           p.idx),
                             Tail(plans))

(* The scheduling loop: one Schedule per entry that is not skipped *)
RECURSIVE ArmAll(_, _)
ArmAll(queue, plans) ==
    IF plans = << >> THEN queue
    ELSE LET p == Head(plans)
         IN  ArmAll(IF p.skipped THEN queue
                    ELSE Schedule(queue, p.diffToPreAnnounce, p.preAnnounceSeconds, p.idx),
                    Tail(plans))

(* The plans of the scheduling loop, in the order of resetTimes *)
BuildPlans(resetTimes, nowTime, weekday, everyDays, cfgPreAnnounce) ==
    [ i \in 1..Len(resetTimes) |->
        EntryPlan(nowTime, weekday, everyDays, cfgPreAnnounce, resetTimes[i], i) ]

(* Rebuild without scheduler.CancelAll() *)
Rebuild_NoCancel(queue, plans) == ArmAll(queue, plans)

(* The pending tasks after "Cancel all tasks for support reload config" and *)
(* the scheduling loop                                                     *)
Rebuild(queue, plans) == ArmAll(CancelAll(queue), plans)

Armed(plans) == SelectSeq(plans, LAMBDA p : ~p.skipped)

Idle == [ op |-> "none", path |-> "none", diff |-> 0, fired |-> << >>, calls |-> << >> ]

NothingBuilt == [ nowTime |-> 0, plans |-> << >>, cancelled |-> 0 ]

(* InitWorld without sWorld->ShutdownCancel() *)
InitWorld_NoCancel(path, world) == world

(* sWorld after Init: only a call that reaches the rebuild cancels the     *)
(* host's shutdown countdown                                               *)
InitWorld(path, world) ==
    IF path = "rebuild" THEN ShutdownCancel(world) ELSE world

(* The path Init takes through its early returns *)
InitPath ==
    IF ~config.Enabled THEN "disabled"
    ELSE IF ParseResetTimes(config.Time) = << >> THEN "notimes"
    ELSE IF EveryDaysRejected(config.EveryDays) THEN "everydays"
    ELSE "rebuild"

ServerAutoShutdown_Init ==
    /\ IF InitPath = "rebuild"
       THEN LET plans == BuildPlans(ParseResetTimes(config.Time), clock,
                                    ValidateWeekday(config.Weekday), config.EveryDays,
                                    config.PreAnnounceSeconds)
            IN  /\ isEnableModule' = TRUE
                /\ tasks' = Rebuild(Aged(tasks), plans)
                /\ updates' = 0
                /\ scheduled' = Len(Armed(plans))
                /\ worldShutdown' = InitWorld("rebuild", worldShutdown)
                /\ built' = [ nowTime |-> clock, plans |-> plans, cancelled |-> Len(tasks) ]
                /\ last' = [Idle EXCEPT !.op = "Init", !.path = "rebuild",
                                        !.calls = << [ fn |-> "ShutdownCancel", seconds |-> 0 ] >>]
       ELSE /\ isEnableModule' = FALSE
            /\ tasks' = Aged(tasks)
            /\ worldShutdown' = InitWorld(InitPath, worldShutdown)
            /\ last' = [Idle EXCEPT !.op = "Init", !.path = InitPath]
            /\ UNCHANGED << updates, scheduled, built >>
    /\ UNCHANGED << config, clock, call >>

-----------------------------------------------------------------------------
(* ServerAutoShutdown::OnUpdate *)

(* OnUpdatePending with the check of _isEnableModule inverted *)
OnUpdatePending_Inverted(enabled, queue, diff) ==
    IF enabled THEN queue ELSE UpdatePending(queue, diff)

(* The tasks OnUpdate(diff) leaves pending *)
OnUpdatePending(enabled, queue, diff) ==
    IF ~enabled THEN queue ELSE UpdatePending(queue, diff)

(* OnUpdateFired with the check of _isEnableModule inverted *)
OnUpdateFired_Inverted(enabled, queue, diff) ==
    IF enabled THEN << >> ELSE UpdateFired(queue, diff)

(* The tasks OnUpdate(diff) fires, in order *)
OnUpdateFired(enabled, queue, diff) ==
    IF ~enabled THEN << >> ELSE UpdateFired(queue, diff)

(* The lambda of a task: it broadcasts the announcement of its captured    *)
(* preAnnounceSeconds and then calls sWorld->ShutdownServ with it.         *)
TaskCalls(task) ==
    << [ fn |-> "SendServerMessage", seconds |-> task.preAnnounceSeconds ],
       [ fn |-> "ShutdownServ", seconds |-> task.preAnnounceSeconds ] >>

RECURSIVE FiredCalls(_)
FiredCalls(fired) ==
    IF fired = << >> THEN << >> ELSE TaskCalls(Head(fired)) \o FiredCalls(Tail(fired))

(* sWorld after the calls, in order *)
RECURSIVE RunCalls(_, _)
RunCalls(world, calls) ==
    IF calls = << >> THEN world
    ELSE RunCalls(IF Head(calls).fn = "ShutdownServ"
                  THEN ShutdownServ(world, Head(calls).seconds)
                  ELSE world,
                  Tail(calls))

(* milliseconds *)
DiffSet == { 999, 1000, 86400000 }

ServerAutoShutdown_OnUpdate ==
    /\ \E diff \in DiffSet :
        LET fired == OnUpdateFired(isEnableModule, tasks, diff)
        IN  /\ isEnableModule => updates < MaxUpdates
            /\ updates' = IF isEnableModule THEN updates + 1 ELSE updates
            /\ tasks' = OnUpdatePending(isEnableModule, tasks, diff)
            /\ worldShutdown' = RunCalls(worldShutdown, FiredCalls(fired))
            /\ last' = [Idle EXCEPT !.op = "OnUpdate",
                                    !.path = IF isEnableModule THEN "update" ELSE "disabled",
                                    !.diff = diff, !.fired = fired,
                                    !.calls = FiredCalls(fired)]
    /\ UNCHANGED << config, clock, isEnableModule, scheduled, built, call >>

-----------------------------------------------------------------------------
(* The environment: the configuration file and the clock *)

(* Monday 2026-11-02 00:00:00, day 20759 since the epoch *)
Monday == 20759 * 86400

(* The defaults of the GetOption calls *)
DefaultConfig ==
    [ Enabled |-> FALSE, Time |-> << <<4, 0, 0>> >>, Weekday |-> -1, EveryDays |-> 1,
      PreAnnounceSeconds |-> DefaultPreAnnounce ]

(* Configurations an administrator reloads between Init calls *)
ReloadConfigs ==
    [ Enabled : BOOLEAN,
      Time : { << <<4, 0, 0>> >>, << <<4, 0, 0>>, <<4, 0, 5>> >>, << <<25, 0, 0>> >>,
               << <<4, 60, 0>>, <<-1, 0, 0>>, <<4, 0>>, <<4, 0, 60>>, <<24, 0, 0>>,
                  <<4, 0, 0, 0>>, <<4, 0, 5>> >> },
      Weekday : { -1 },
      EveryDays : { 0, 1, 366 },
      PreAnnounceSeconds : { DefaultPreAnnounce } ]

ReloadClocks ==
    { Monday + 3 * 3600,                   \* Monday 03:00:00
      Monday + 3 * 3600 + 59 * 60 + 55 }   \* Monday 03:59:55

(* The configuration file is edited *)
EditConfig ==
    /\ \E c \in ReloadConfigs : config' = c
    /\ config' # config
    /\ UNCHANGED << clock, isEnableModule, tasks, updates, scheduled, worldShutdown, built,
                    last, call >>

(* Wall-clock time passes *)
TimePasses ==
    /\ \E t \in ReloadClocks : t > clock /\ clock' = t
    /\ UNCHANGED << config, isEnableModule, tasks, updates, scheduled, worldShutdown, built,
                    last, call >>

NoCall == [ fn |-> "none" ]

(* The module is constructed disabled, with an empty scheduler *)
Constructed ==
    /\ isEnableModule = FALSE
    /\ tasks = << >>
    /\ updates = 0
    /\ scheduled = 0
    /\ worldShutdown = [ timer |-> 0 ]
    /\ built = NothingBuilt
    /\ last = Idle

-----------------------------------------------------------------------------
(* Spec: the life of the module under configuration reloads *)

Init ==
    /\ Constructed
    /\ config = DefaultConfig
    /\ clock = Monday + 3 * 3600
    /\ call = NoCall

Next ==
    \/ ServerAutoShutdown_Init
    \/ ServerAutoShutdown_OnUpdate
    \/ EditConfig
    \/ TimePasses

Spec == Init /\ [][Next]_vars

-----------------------------------------------------------------------------
(* SpecBuild: one configuration and one clock reading, over wide inputs *)

NowSet ==
    { Monday + 3 * 3600,                   \* Monday 03:00:00
      Monday + 3 * 3600 + 59 * 60 + 55,    \* Monday 03:59:55
      Monday + 4 * 3600,                   \* Monday 04:00:00
      Monday + 5 * 3600,                   \* Monday 05:00:00
      Monday + 2 * 86400 + 10 * 3600 }     \* Wednesday 10:00:00

TimeLists ==
    { << >>,                                \* ""
      << <<4, 0, 0>> >>,                    \* "04:00:00"
      << <<4, 0, 0>>, <<4, 0, 0>> >>,       \* "04:00:00;04:00:00"
      << <<4, 0, 0>>, <<4, 0, 5>> >>,       \* "04:00:00;04:00:05"
      << <<25, 0, 0>> >>,                   \* "25:00:00"
      << <<25, 0, 0>>, <<12, 30, 0>> >>,    \* "25:00:00;12:30:00"
      << <<4, 0>> >>,                       \* "04:00"
      << <<-1, 0, 0>>, <<4, 60, 0>>, <<4, 0, 5>> >>,    \* "xx:00:00;04:60:00;04:00:05"
      << <<4, 0, 0, 0>>, <<4, 0, 60>>, <<300, 0, 0>>, <<23, 59, 59>> >> }
                                            \* "04:00:00:00;04:00:60;300:00:00;23:59:59"

(* -1 is the uint32 4294967295 *)
BuildConfigs ==
    [ Enabled : BOOLEAN,
      Time : TimeLists,
      Weekday : { -2, -1, 1, 3, 7 },
      EveryDays : { 0, 1, 2, 3, 365, 366 },
      PreAnnounceSeconds : { 600, 3600, 86400, 86401, -1 } ]

InitBuild ==
    /\ Constructed
    /\ config \in BuildConfigs
    /\ clock \in NowSet
    /\ call = NoCall

NextBuild ==
    \/ ServerAutoShutdown_Init
    \/ ServerAutoShutdown_OnUpdate

SpecBuild == InitBuild /\ [][NextBuild]_vars

-----------------------------------------------------------------------------
(* SpecTime: single calls of GetNextResetTime and GetNextWeekdayTime *)

(* Monday 2026-11-02 to Sunday 2026-11-08, at nine times of day *)
CallNows ==
    { Monday + d * 86400 + tod :
        d \in 0..6,
        tod \in { 0, 3 * 3600, 3 * 3600 + 59 * 60 + 59, 4 * 3600, 4 * 3600 + 1,
                  4 * 3600 + 60, 5 * 3600, 10 * 3600, 23 * 3600 + 59 * 60 + 59 } }

CallHours == { 0, 4, 23 }
CallMinutes == { 0, 1, 59 }
CallSeconds == { 0, 1, 59 }
CallDays == { 1, 2, 365 }
CallWeekdays == 0..6

TimeCalls ==
    [ fn : { "GetNextResetTime" }, now : CallNows, arg : CallDays,
      hour : CallHours, minute : CallMinutes, second : CallSeconds,
      returned : { FALSE }, result : { 0 } ]
    \cup
    [ fn : { "GetNextWeekdayTime" }, now : CallNows, arg : CallWeekdays,
      hour : CallHours, minute : CallMinutes, second : CallSeconds,
      returned : { FALSE }, result : { 0 } ]

CallGetNextResetTime ==
    /\ call.fn = "GetNextResetTime"
    /\ ~call.returned
    /\ call' = [call EXCEPT !.returned = TRUE,
                            !.result = GetNextResetTime(call.now, call.arg, call.hour,
                                                        call.minute, call.second)]
    /\ UNCHANGED << config, clock, isEnableModule, tasks, updates, scheduled, worldShutdown,
                    built, last >>

CallGetNextWeekdayTime ==
    /\ call.fn = "GetNextWeekdayTime"
    /\ ~call.returned
    /\ call' = [call EXCEPT !.returned = TRUE,
                            !.result = GetNextWeekdayTime(call.now, call.arg, call.hour,
                                                          call.minute, call.second)]
    /\ UNCHANGED << config, clock, isEnableModule, tasks, updates, scheduled, worldShutdown,
                    built, last >>

InitTime ==
    /\ Constructed
    /\ config = DefaultConfig
    /\ clock = Monday
    /\ call \in TimeCalls

NextTime == CallGetNextResetTime \/ CallGetNextWeekdayTime

SpecTime == InitTime /\ [][NextTime]_vars

-----------------------------------------------------------------------------
(* Properties *)

(* The instant with the given time of day on the local day of `now` *)
SameDayInstant(now, hour, minute, second) ==
    (now \div 86400) * 86400 + hour * 3600 + minute * 60 + second

(* C1: GetNextResetTime with day = 1 returns an instant >= now: the        *)
(* same-day instant when that is strictly after now, and otherwise the     *)
(* same-day instant plus exactly 86400 seconds.  From Monday 03:00:00 the  *)
(* time 04:00:00 is 3600 s away, from Monday 05:00:00 it is 23 * 3600 s.   *)
C1_DailyNextInstant ==
    (call.fn = "GetNextResetTime" /\ call.returned /\ call.arg = 1) =>
        LET sameDay == SameDayInstant(call.now, call.hour, call.minute, call.second)
        IN  /\ call.result >= call.now
            /\ sameDay > call.now => call.result = sameDay
            /\ sameDay <= call.now => call.result = sameDay + 86400
            /\ (call.now = Monday + 3 * 3600 /\ call.hour = 4 /\ call.minute = 0
                  /\ call.second = 0) => call.result - call.now = 3600
            /\ (call.now = Monday + 5 * 3600 /\ call.hour = 4 /\ call.minute = 0
                  /\ call.second = 0) => call.result - call.now = 23 * 3600

(* C1 witness: a daily call made exactly at the target time has returned   *)
(* the next day's instant.                                                 *)
C1_Witness ==
    /\ call.fn = "GetNextResetTime" /\ call.returned /\ call.arg = 1
    /\ call.now = SameDayInstant(call.now, call.hour, call.minute, call.second)
    /\ call.result = call.now + 86400

(* (hour, minute, second) a strictly later than b, in lexicographic order *)
LaterTimeOfDay(a, b) ==
    \/ a.hour > b.hour
    \/ (a.hour = b.hour /\ a.min > b.min)
    \/ (a.hour = b.hour /\ a.min = b.min /\ a.sec > b.sec)

(* C3: GetNextWeekdayTime returns an instant on weekday wd, at the target  *)
(* time of day, on a date 0..7 days after now's date; when wd is today's   *)
(* weekday the date is today iff the target time of day is strictly later  *)
(* than now's, and is 7 days after today otherwise.                        *)
C3_WeekdayNextInstant ==
    (call.fn = "GetNextWeekdayTime" /\ call.returned) =>
        LET nowTm == TimeBreakdown(call.now)
            resTm == TimeBreakdown(call.result)
            target == [ hour |-> call.hour, min |-> call.minute, sec |-> call.second ]
        IN  /\ resTm.wday = call.arg
            /\ resTm.hour = call.hour /\ resTm.min = call.minute /\ resTm.sec = call.second
            /\ resTm.day - nowTm.day \in 0..7
            /\ call.arg = nowTm.wday =>
                 /\ resTm.day = nowTm.day <=> LaterTimeOfDay(target, nowTm)
                 /\ ~LaterTimeOfDay(target, nowTm) => resTm.day = nowTm.day + 7

(* C3 witness: a call for today's weekday made exactly at the target time  *)
(* has returned the instant one week later.                                *)
C3_Witness ==
    /\ call.fn = "GetNextWeekdayTime" /\ call.returned
    /\ call.arg = TimeBreakdown(call.now).wday
    /\ call.now = SameDayInstant(call.now, call.hour, call.minute, call.second)
    /\ call.result = call.now + 7 * 86400

JustRebuilt == last.op = "Init" /\ last.path = "rebuild"

(* The seconds from the rebuild's reading of the clock to a plan's instant *)
ShutdownDelay(p) == p.nextResetTime - built.nowTime

(* The positions in a sequence of tasks of the tasks of entry idx *)
TasksOf(queue, idx) == { k \in 1..Len(queue) : queue[k].idx = idx }

(* C2: with weekday pinning disabled and EveryDays = N in 2..365, the next *)
(* shutdown instant Init computes for a time entry is the same-day instant *)
(* plus 86400 * N seconds, never the same-day instant itself.              *)
C2_EveryDaysNextInstant ==
    (config.Weekday \notin 0..6 /\ config.EveryDays \in 2..365) =>
        \A i \in 1..Len(built.plans) :
            LET p == built.plans[i]
                sameDay == SameDayInstant(built.nowTime, p.entry.hour, p.entry.minute,
                                          p.entry.second)
            IN  /\ p.nextResetTime = sameDay + 86400 * config.EveryDays
                /\ p.nextResetTime # sameDay

(* C2 witness: Init has armed a task for an entry whose same-day instant   *)
(* was still in the future, N days after that instant.                     *)
C2_Witness ==
    /\ JustRebuilt /\ config.Weekday \notin 0..6 /\ config.EveryDays \in 2..365
    /\ \E i \in 1..Len(built.plans) :
          LET p == built.plans[i]
              sameDay == SameDayInstant(built.nowTime, p.entry.hour, p.entry.minute,
                                        p.entry.second)
          IN  /\ sameDay > built.nowTime
              /\ p.nextResetTime = sameDay + 86400 * config.EveryDays
              /\ TasksOf(tasks, i) # { }

(* C4 as claimed: every pending task was armed by the most recent Init call *)
C4_AsClaimed ==
    \A k \in 1..Len(tasks) : tasks[k].age = 0

(* C4, amended: an Init call that reaches the rebuild first cancels every  *)
(* pending task, so right after it, and whenever the module is enabled,    *)
(* every pending task was armed by the most recent Init call; an Init call *)
(* that returns early leaves the pending tasks in place, and at all times  *)
(* the pending tasks were all armed by one and the same Init call.         *)
C4_OneScheduleInFlight ==
    /\ (JustRebuilt \/ isEnableModule) => \A k \in 1..Len(tasks) : tasks[k].age = 0
    /\ \A j, k \in 1..Len(tasks) : tasks[j].age = tasks[k].age
    /\ \A j, k \in 1..Len(tasks) : tasks[j].idx = tasks[k].idx => j = k
    /\ Len(tasks) <= scheduled

(* C4 witness: an Init call has cancelled pending tasks and armed new ones *)
C4_Witness ==
    /\ JustRebuilt /\ built.cancelled > 0 /\ tasks # << >>
    /\ \A k \in 1..Len(tasks) : tasks[k].age = 0

(* C5: once scheduler.CancelAll() has run and until the next Schedule, no  *)
(* OnUpdate fires a task: no broadcast, no ShutdownServ.                   *)
C5_NothingFiresAfterCancelAll ==
    (scheduled = 0 /\ last.op = "OnUpdate") =>
        /\ last.fired = << >>
        /\ last.calls = << >>
        /\ tasks = << >>

(* C5 witness: a rebuild cancelled pending tasks and scheduled none, and   *)
(* the scheduler has been updated twice since.                             *)
C5_Witness ==
    /\ scheduled = 0 /\ built.cancelled > 0
    /\ last.op = "OnUpdate" /\ last.path = "update" /\ updates >= 2

(* C6: in an Update, a pending task fires iff its cumulative elapsed time  *)
(* has reached its delay; a fired task runs once and is removed, every     *)
(* other task stays pending with its clock advanced, and all the tasks due *)
(* in the same Update fire in it.                                          *)
C6_UpdateFiresDueTasksOnce ==
    [][ (isEnableModule /\ updates' = updates + 1) =>
          LET diff == last'.diff
              reached(t) == (t.elapsed + diff) \div 1000 >= t.delay
          IN  /\ \A i \in 1..Len(tasks) :
                    IF reached(tasks[i])
                    THEN /\ Cardinality({ k \in 1..Len(last'.fired) :
                                            last'.fired[k] = tasks[i] }) = 1
                         /\ TasksOf(tasks', tasks[i].idx) = { }
                    ELSE /\ TasksOf(last'.fired, tasks[i].idx) = { }
                         /\ Cardinality({ k \in 1..Len(tasks') :
                               tasks'[k] = [tasks[i] EXCEPT !.elapsed = @ + diff] }) = 1
              /\ Len(last'.fired) + Len(tasks') = Len(tasks)
              /\ Len(last'.calls) = 2 * Len(last'.fired)
      ]_vars

(* C6 witness: two tasks that an earlier Update left pending, 999 ms into  *)
(* their delay of one second, have fired in the same Update.               *)
C6_Witness ==
    /\ last.op = "OnUpdate" /\ Len(last.fired) >= 2
    /\ \A k \in 1..Len(last.fired) : last.fired[k].elapsed > 0 /\ last.fired[k].delay > 0
    /\ tasks = << >>

(* C7: an entry is skipped exactly when its shutdownDelay is below 10      *)
(* seconds; Init arms one task for every other entry and none for a        *)
(* skipped one, and it leaves the module enabled.                          *)
C7_ShortEntriesSkipped ==
    /\ \A i \in 1..Len(built.plans) :
          built.plans[i].skipped <=> ShutdownDelay(built.plans[i]) < 10
    /\ \A k \in 1..Len(tasks) :
          /\ tasks[k].idx \in 1..Len(built.plans)
          /\ ShutdownDelay(built.plans[tasks[k].idx]) >= 10
    /\ JustRebuilt =>
          /\ isEnableModule
          /\ Len(built.plans) = Len(ParseResetTimes(config.Time))
          /\ \A i \in 1..Len(built.plans) :
                Cardinality(TasksOf(tasks, i)) = IF ShutdownDelay(built.plans[i]) < 10
                                                 THEN 0 ELSE 1

(* C7 witness: Init skipped one entry and armed a task for another *)
C7_Witness ==
    /\ JustRebuilt /\ isEnableModule
    /\ \E i, j \in 1..Len(built.plans) :
          /\ ShutdownDelay(built.plans[i]) < 10 /\ TasksOf(tasks, i) = { }
          /\ ShutdownDelay(built.plans[j]) >= 10 /\ TasksOf(tasks, j) # { }

(* PreAnnounce.Seconds as the claims normalise it: above 86400 it is 3600 *)
NormalizedPreAnnounce(configured) ==
    IF configured < 0 \/ configured > 86400 THEN 3600 ELSE configured

(* The task of entry i announced and passed these seconds to ShutdownServ *)
FiredWith(i, seconds) ==
    \A j \in 1..Len(last.fired) :
        last.fired[j].idx = i =>
            /\ last.calls[2 * j - 1] = [ fn |-> "SendServerMessage", seconds |-> seconds ]
            /\ last.calls[2 * j] = [ fn |-> "ShutdownServ", seconds |-> seconds ]
            /\ j = Len(last.fired) => worldShutdown.timer = seconds

(* C8: for a surviving entry with shutdownDelay < preAnnounceSeconds       *)
(* (after clamping) the armed delay is 1 second, and the duration the task *)
(* announces and passes to ShutdownServ is shutdownDelay.                  *)
C8_CompressedAnnounceWindow ==
    \A i \in 1..Len(built.plans) :
        LET p == built.plans[i]
        IN  (~p.skipped /\ ShutdownDelay(p) < NormalizedPreAnnounce(config.PreAnnounceSeconds)) =>
                /\ p.diffToPreAnnounce = 1
                /\ p.preAnnounceSeconds = ShutdownDelay(p)
                /\ JustRebuilt => TasksOf(tasks, i) # { }
                /\ \A k \in TasksOf(tasks, i) :
                      /\ tasks[k].delay = 1
                      /\ tasks[k].preAnnounceSeconds = ShutdownDelay(p)
                /\ FiredWith(i, ShutdownDelay(p))

(* C8 witness: a task armed with the compressed window has fired *)
C8_Witness ==
    /\ last.op = "OnUpdate"
    /\ \E j \in 1..Len(last.fired) :
          LET p == built.plans[last.fired[j].idx]
          IN  /\ ShutdownDelay(p) < NormalizedPreAnnounce(config.PreAnnounceSeconds)
              /\ last.fired[j].delay = 1
              /\ worldShutdown.timer = ShutdownDelay(p)

(* C9: the armed delay and the effective pre-announce duration of every    *)
(* armed task are those of preAnnounceSeconds = 3600 when the configured   *)
(* value exceeds 86400, and those of the configured value otherwise.       *)
C9_PreAnnounceNormalized ==
    \A i \in 1..Len(built.plans) :
        LET p == built.plans[i]
            pre == NormalizedPreAnnounce(config.PreAnnounceSeconds)
            effective == IF ShutdownDelay(p) < pre THEN ShutdownDelay(p) ELSE pre
            delay == IF ShutdownDelay(p) < pre THEN 1 ELSE ShutdownDelay(p) - pre
        IN  ~p.skipped =>
                /\ p.preAnnounceSeconds = effective
                /\ p.diffToPreAnnounce = delay
                /\ \A k \in TasksOf(tasks, i) :
                      tasks[k].delay = delay /\ tasks[k].preAnnounceSeconds = effective
                /\ FiredWith(i, effective)

(* C9 witness: with more than 86400 configured, Init has armed a task that *)
(* announces 3600 seconds, 3600 seconds before the shutdown instant.       *)
C9_Witness ==
    /\ JustRebuilt /\ config.PreAnnounceSeconds \notin 0..86400
    /\ \E k \in 1..Len(tasks) :
          /\ tasks[k].preAnnounceSeconds = 3600
          /\ tasks[k].delay = ShutdownDelay(built.plans[tasks[k].idx]) - 3600
          /\ tasks[k].delay > 1

(* C10: Init computes every entry's next instant with the weekday policy   *)
(* exactly when the configured Weekday is in 0..6, and with the EveryDays  *)
(* policy otherwise; a Weekday outside -1..6 does not disable the module.  *)
C10_CadencePolicySelection ==
    (last.op = "Init" /\ config.Enabled /\ ParseResetTimes(config.Time) # << >>
       /\ config.EveryDays \in 1..365) =>
        /\ last.path = "rebuild"
        /\ isEnableModule
        /\ \A i \in 1..Len(built.plans) :
              LET p == built.plans[i]
              IN  p.nextResetTime =
                    IF config.Weekday \in 0..6
                    THEN GetNextWeekdayTime(built.nowTime, config.Weekday, p.entry.hour,
                                            p.entry.minute, p.entry.second)
                    ELSE GetNextResetTime(built.nowTime, config.EveryDays, p.entry.hour,
                                          p.entry.minute, p.entry.second)

(* C10 witness: with a Weekday of 0..6 and EveryDays above 1 configured,   *)
(* Init has armed a task for the weekday instant, which is not the         *)
(* instant of the EveryDays policy.                                        *)
C10_Witness ==
    /\ JustRebuilt /\ config.Weekday \in 0..6 /\ config.EveryDays > 1
    /\ \E k \in 1..Len(tasks) :
          LET p == built.plans[tasks[k].idx]
          IN  /\ p.nextResetTime = GetNextWeekdayTime(built.nowTime, config.Weekday,
                                       p.entry.hour, p.entry.minute, p.entry.second)
              /\ p.nextResetTime # GetNextResetTime(built.nowTime, config.EveryDays,
                                       p.entry.hour, p.entry.minute, p.entry.second)

(* A step that is one call of ServerAutoShutdown::Init: the only steps     *)
(* that leave an Init in `last` and keep the configuration and the clock   *)
InitStep == last'.op = "Init" /\ config' = config /\ clock' = clock

(* C11 as claimed: after an Init that rejected EveryDays the module is     *)
(* disabled and the scheduler holds no task.                               *)
C11_AsClaimed ==
    (last.op = "Init" /\ last.path = "everydays") =>
        (~isEnableModule /\ tasks = << >>)

(* C11, amended: an Init call that reads EveryDays outside 1..365 (the     *)
(* module enabled, a time entry accepted) returns with the module disabled *)
(* and has armed no task and started no countdown; it cancels nothing, so  *)
(* the tasks an earlier Init armed stay in the scheduler.                  *)
C11_InvalidEveryDaysDisables ==
    [][ (InitStep /\ config.Enabled /\ ParseResetTimes(config.Time) # << >>
           /\ config.EveryDays \notin 1..365) =>
          /\ last'.path = "everydays"
          /\ ~isEnableModule'
          /\ Len(tasks') = Len(tasks)
          /\ \A k \in 1..Len(tasks') :
                /\ tasks'[k].age >= 1
                /\ [tasks'[k] EXCEPT !.age = 0] = [tasks[k] EXCEPT !.age = 0]
          /\ scheduled' = scheduled
          /\ worldShutdown' = worldShutdown ]_vars

(* C11 witness: Init has rejected an EveryDays of 366 and disabled the     *)
(* module, the tasks of an earlier Init still in the scheduler.            *)
C11_Witness ==
    /\ last.op = "Init" /\ last.path = "everydays"
    /\ config.EveryDays = 366 /\ config.Enabled
    /\ ~isEnableModule
    /\ tasks # << >>

(* An entry of the Time option as the specification accepts it: exactly   *)
(* three numeric fields, hour at most 23, minute and second at most 59     *)
ValidTimeEntry(tokens) ==
    /\ Len(tokens) = 3
    /\ \A f \in 1..3 : tokens[f] >= 0
    /\ tokens[1] <= 23 /\ tokens[2] <= 59 /\ tokens[3] <= 59

(* C12 as claimed: after an Init that accepted no time entry the module is *)
(* disabled and the scheduler holds no task.                               *)
C12_AsClaimed ==
    (last.op = "Init" /\ last.path = "notimes") =>
        (~isEnableModule /\ tasks = << >>)

(* C12, amended: Init (the module enabled) accepts exactly the entries of  *)
(* three numeric fields with hour <= 23, minute <= 59 and second <= 59, in *)
(* their order, whatever the other entries are; when it accepts none it    *)
(* returns with the module disabled, having armed no task and cancelled    *)
(* none, so the tasks an earlier Init armed stay in the scheduler.         *)
C12_TimeEntryValidation ==
    [][ (InitStep /\ config.Enabled) =>
          LET accepted == SelectSeq(config.Time, ValidTimeEntry)
          IN  IF accepted = << >>
              THEN /\ last'.path = "notimes"
                   /\ ~isEnableModule'
                   /\ Len(tasks') = Len(tasks)
                   /\ \A k \in 1..Len(tasks') :
                         /\ tasks'[k].age >= 1
                         /\ [tasks'[k] EXCEPT !.age = 0] = [tasks[k] EXCEPT !.age = 0]
                   /\ scheduled' = scheduled
              ELSE /\ last'.path \in { "rebuild", "everydays" }
                   /\ last'.path = "rebuild" =>
                         /\ isEnableModule'
                         /\ Len(built'.plans) = Len(accepted)
                         /\ \A i \in 1..Len(accepted) :
                               built'.plans[i].entry =
                                   [ hour |-> accepted[i][1], minute |-> accepted[i][2],
                                     second |-> accepted[i][3] ] ]_vars

(* C12 witness: of seven entries Init has rejected six (minute 60, not a  *)
(* number, two fields, second 60, hour 24, four fields) and armed a task   *)
(* for the seventh, 04:00:05.                                              *)
C12_Witness ==
    /\ JustRebuilt /\ Len(config.Time) = 7
    /\ Len(built.plans) = 1
    /\ built.plans[1].entry = [ hour |-> 4, minute |-> 0, second |-> 5 ]
    /\ TasksOf(tasks, 1) # { }

(* C12 witness of the fatal case: Init has accepted no entry and disabled  *)
(* the module, the tasks of an earlier Init still in the scheduler.        *)
C12_WitnessNoTimes ==
    /\ last.op = "Init" /\ last.path = "notimes"
    /\ ~isEnableModule
    /\ tasks # << >>

(* A step that is one call of ServerAutoShutdown::OnUpdate *)
OnUpdateStep == last'.op = "OnUpdate" /\ config' = config /\ clock' = clock

(* C13: while the module is disabled OnUpdate(diff) changes nothing: every *)
(* pending task keeps its place and its remaining delay, no action fires,  *)
(* the host's countdown is untouched; while the module is enabled          *)
(* OnUpdate(diff) is the scheduler's Update(diff).                         *)
C13_OnUpdateGatedByEnabled ==
    [][ OnUpdateStep =>
          IF ~isEnableModule
          THEN /\ tasks' = tasks
               /\ last'.fired = << >> /\ last'.calls = << >>
               /\ worldShutdown' = worldShutdown
               /\ isEnableModule' = isEnableModule
          ELSE /\ tasks' = UpdatePending(tasks, last'.diff)
               /\ last'.fired = UpdateFired(tasks, last'.diff)
               /\ Len(last'.calls) = 2 * Len(last'.fired) ]_vars

(* C13 witness: OnUpdate has run with a day of elapsed time while the      *)
(* module was disabled, and a task whose delay is over is still pending,   *)
(* its elapsed time still zero.                                            *)
C13_Witness ==
    /\ last.op = "OnUpdate" /\ last.path = "disabled" /\ last.diff = 86400000
    /\ ~isEnableModule
    /\ \E k \in 1..Len(tasks) : tasks[k].delay = 0 /\ tasks[k].elapsed = 0
    /\ last.fired = << >>

(* C13 witness of the enabled case: OnUpdate has fired a task *)
C13_WitnessEnabled ==
    /\ last.op = "OnUpdate" /\ last.path = "update" /\ last.fired # << >>

(* The plans of the last rebuild whose entry survives: a shutdown delay of *)
(* at least 10 seconds                                                     *)
Surviving == { i \in 1..Len(built.plans) : ShutdownDelay(built.plans[i]) >= 10 }

(* C14: right after an Init that rebuilt the schedule, the scheduler holds *)
(* exactly one pending task for each valid time entry whose shutdown delay *)
(* is at least 10 seconds and no other task; entries that are equal each   *)
(* have a task of their own.                                               *)
C14_OneTaskPerSurvivingEntry ==
    JustRebuilt =>
        /\ Len(built.plans) = Len(SelectSeq(config.Time, ValidTimeEntry))
        /\ Len(tasks) = Cardinality(Surviving)
        /\ \A i \in Surviving : Cardinality(TasksOf(tasks, i)) = 1
        /\ \A k \in 1..Len(tasks) : tasks[k].idx \in Surviving /\ tasks[k].age = 0
        /\ scheduled = Len(tasks)

(* C14 witness: Init has cancelled the tasks of an earlier call and armed  *)
(* two tasks for two equal entries, with the same delay and duration.      *)
C14_Witness ==
    /\ JustRebuilt /\ built.cancelled > 0
    /\ Len(built.plans) = 2 /\ built.plans[1].entry = built.plans[2].entry
    /\ Len(tasks) = 2
    /\ tasks[1].idx # tasks[2].idx
    /\ tasks[1].delay = tasks[2].delay
    /\ tasks[1].preAnnounceSeconds = tasks[2].preAnnounceSeconds

(* C15: a task that OnUpdate fires was armed by the most recent Init call: *)
(* no Init call, on any of its paths, has returned since the task was      *)
(* armed; and a task that has seen a later Init return and is still        *)
(* pending is pending in a disabled module.                                *)
C15_StaleTasksNeverFire ==
    /\ last.op = "OnUpdate" =>
          \A j \in 1..Len(last.fired) : last.fired[j].age = 0
    /\ (\E k \in 1..Len(tasks) : tasks[k].age >= 1) => ~isEnableModule

(* C15 witness: an Init has rebuilt the schedule, cancelling the pending   *)
(* tasks of an earlier call, and a task of the rebuilding call has fired.  *)
C15_Witness ==
    /\ last.op = "OnUpdate" /\ last.fired # << >>
    /\ built.cancelled > 0
    /\ \A j \in 1..Len(last.fired) : last.fired[j].age = 0

(* C15 witness of the early return: a task that was due has outlived an    *)
(* Init call that disabled the module and an OnUpdate after it.            *)
C15_WitnessStale ==
    /\ last.op = "OnUpdate" /\ ~isEnableModule
    /\ \E k \in 1..Len(tasks) : tasks[k].age >= 1 /\ tasks[k].delay = 0

C16_CountdownEnd ==
    JustRebuilt =>
        \A k \in 1..Len(tasks) :
            LET shutdownDelay == ShutdownDelay(built.plans[tasks[k].idx])
                late == IF shutdownDelay < NormalizedPreAnnounce(config.PreAnnounceSeconds)
                        THEN 1 ELSE 0
            IN  /\ tasks[k].delay + tasks[k].preAnnounceSeconds = shutdownDelay + late
                /\ tasks[k].delay >= 0
                /\ tasks[k].delay <= shutdownDelay

(* C16 witness: Init has armed a task that fires in one second and then    *)
(* counts the whole shutdown delay down.                                   *)
C16_Witness ==
    /\ JustRebuilt
    /\ \E k \in 1..Len(tasks) :
          /\ tasks[k].delay = 1
          /\ tasks[k].preAnnounceSeconds = ShutdownDelay(built.plans[tasks[k].idx])

(* C17 as claimed: whenever Init has returned with the module disabled, no *)
(* shutdown countdown of the host is in flight.                            *)
C17_AsClaimed ==
    (last.op = "Init" /\ ~isEnableModule) => worldShutdown.timer = 0

(* C17, amended: an Init call that rebuilds the schedule cancels the       *)
(* host's shutdown countdown; an Init call that returns with the module    *)
(* disabled leaves the host's countdown as it was, so a countdown that a   *)
(* task fired earlier has started stays in flight.                         *)
C17_OnlyRebuildCancelsShutdown ==
    [][ InitStep =>
          /\ last'.path = "rebuild" =>
                (isEnableModule' /\ worldShutdown'.timer = 0)
          /\ last'.path # "rebuild" =>
                (~isEnableModule' /\ worldShutdown' = worldShutdown) ]_vars

(* C17 witness: a task has fired and started the host's countdown, and an  *)
(* Init that disabled the module has returned with the countdown running.  *)
C17_Witness ==
    /\ last.op = "Init" /\ last.path \in { "disabled", "notimes", "everydays" }
    /\ ~isEnableModule
    /\ worldShutdown.timer > 0

(* C17 witness of the rebuild: Init has cancelled pending tasks and        *)
(* rebuilt the schedule, and no countdown is in flight.                    *)
C17_WitnessRebuild ==
    /\ JustRebuilt /\ built.cancelled > 0 /\ worldShutdown.timer = 0

(* C18 as claimed: whenever Init has returned with the module enabled, the *)
(* scheduler holds a pending task.                                         *)
C18_AsClaimed ==
    (last.op = "Init" /\ isEnableModule) => tasks # << >>

(* C18, amended: whenever Init has returned with the module enabled it has *)
(* accepted at least one time entry, and the scheduler holds a pending     *)
(* task unless every accepted entry is less than 10 seconds away; then the *)
(* module is enabled with nothing scheduled.                               *)
C18_EnabledWithoutTaskOnlyWhenAllSkipped ==
    (last.op = "Init" /\ isEnableModule) =>
        /\ JustRebuilt
        /\ built.plans # << >>
        /\ tasks = << >> <=> Surviving = { }
        /\ scheduled = Cardinality(Surviving)

(* C18 witness: Init has returned with the module enabled, every accepted  *)
(* entry skipped and nothing scheduled.                                    *)
C18_Witness ==
    /\ last.op = "Init" /\ isEnableModule
    /\ built.plans # << >>
    /\ \A i \in 1..Len(built.plans) : ShutdownDelay(built.plans[i]) \in 0..9
    /\ tasks = << >>

(***************************************************************************)
(* The run of one schedule: one Init at startup (module enabled, the Time  *)
(* option valid), then OnUpdate on every world tick.  The configurations   *)
(* arm tasks whose delay is 0, 1 or 2 seconds, which the smallest diff of  *)
(* DiffSet reaches within MaxUpdates ticks.                                *)
(***************************************************************************)
LiveConfigs ==
    [ Enabled : { TRUE },
      Time : { << <<4, 0, 0>> >>,
               << <<4, 0, 0>>, <<4, 0, 2>> >>,
               << <<4, 0, 2>>, <<4, 0, 0>> >>,
               << <<4, 0, 0>>, <<4, 0, 0>> >> },
      Weekday : { -1 },
      EveryDays : { 1 },
      PreAnnounceSeconds : { 3600, 86400 } ]

LiveClocks == { Monday + 3 * 3600, Monday + 3 * 3600 + 59 * 60 + 50 }

InitLive ==
    /\ Constructed
    /\ config \in LiveConfigs
    /\ clock \in LiveClocks
    /\ call = NoCall

(* The one call of Init, before the first OnUpdate *)
InitAtStartup ==
    /\ last.op = "none"
    /\ ServerAutoShutdown_Init

NextLive ==
    \/ InitAtStartup
    \/ ServerAutoShutdown_OnUpdate

(* The host calls Init at startup and OnUpdate on every tick of its loop *)
SpecLive ==
    /\ InitLive
    /\ [][NextLive]_vars
    /\ WF_vars(InitAtStartup)
    /\ WF_vars(ServerAutoShutdown_OnUpdate)

(* The task of entry i is armed and pending in an enabled module *)
ArmedPending(i) == isEnableModule /\ TasksOf(tasks, i) # { }

(* OnUpdate has just fired the task of entry i: the broadcast, then        *)
(* ShutdownServ, both with the duration the rebuild computed for entry i   *)
JustFired(i) ==
    /\ last.op = "OnUpdate"
    /\ \E j \in 1..Len(last.fired) : last.fired[j].idx = i
    /\ i \in 1..Len(built.plans)
    /\ FiredWith(i, built.plans[i].preAnnounceSeconds)
    /\ TasksOf(tasks, i) = { }

(* C19: with one Init that arms tasks, the module enabled from then on and *)
(* OnUpdate called on and on with positive diff, every armed task          *)
(* eventually fires: it broadcasts the announcement and then calls         *)
(* ShutdownServ, both with the effective pre-announce duration that Init   *)
(* computed for its entry.                                                 *)
C19_ArmedTasksEventuallyFire ==
    /\ ArmedPending(1) ~> JustFired(1)
    /\ ArmedPending(2) ~> JustFired(2)

(* C19 witness: the second of two armed tasks has fired on a later tick    *)
(* than the first, announcing and passing on the duration of its entry.    *)
C19_Witness ==
    /\ JustFired(2) /\ updates >= 2
    /\ Len(last.fired) = 1
    /\ tasks = << >>
    /\ worldShutdown.timer = built.plans[2].preAnnounceSeconds

====
